---------------------------- MODULE Spec2Model ----------------------------
(***************************************************************************)
(* dorky (src/main.go, lines 291-648): words read from standard input are  *)
(* normalised into a de-duplicated map, and every word of the map is       *)
(* searched on GitHub and GitLab according to the command-line flags.      *)
(*                                                                         *)
(* A string is a sequence of one-character strings.  A line of standard    *)
(* output is the sequence of the fragments fmt.Printf / fmt.Println        *)
(* concatenates: the empty sequence is a blank line.                       *)
(***************************************************************************)
EXTENDS Integers, Sequences, FiniteSets, Bags, TLC

VARIABLES
    flags,      \* the parsed command line (var flags = config{})
    env,        \* which access tokens the environment holds
    pc,         \* the statement main is about to execute
    stdin,      \* number of lines standard input still holds
    line,       \* readAndCleanWords: the raw line of the latest scanner.Scan
    words,      \* the map words, as the bag of its keys
    visited,    \* searchPlatforms: the entries the range loop has yielded
    cur,        \* searchPlatforms: the loop variable word
    calls,      \* bag of <<function, word>>: the search functions entered so far
    sent,       \* the API requests the latest step put on the wire, in order
    received,   \* the responses to them, in order
    stdout,     \* the lines the latest step wrote to standard output, in order
    exitCode,   \* the process exit status, NotExited while it runs
    limiters    \* the tokens left in each rate.Limiter made so far, in order

vars == <<flags, env, pc, stdin, line, words, visited, cur, calls, sent, received,
          stdout, exitCode, limiters>>

----------------------------------------------------------------------------
(* Bounds *)

\* lines of standard input in a run of the dispatcher
MaxLines == 2
\* lines of standard input in a run of the normaliser alone
MaxNormLines == 1
\* length of the generated part of an input line
MaxLen == 2
\* entries a remote API returns for one request
MaxResults == 2

----------------------------------------------------------------------------
(* Strings *)

NoLine == <<"<none>">>
NoWord == <<"<none>">>
NotExited == -1

NL == "\n"

\* unicode.IsSpace, on the characters of the model
IsSpace(c) == c \in {" ", "\t", "\n", "\r", "\f"}

\* the class \s of spaceRegexp
IsRegexSpace(c) == c \in {" ", "\t", "\n", "\f", "\r"}

HasPrefix(s, p) == Len(s) >= Len(p) /\ SubSeq(s, 1, Len(p)) = p

Drop(s, n) == SubSeq(s, n + 1, Len(s))

SetMin(S) == CHOOSE x \in S : \A y \in S : x <= y
SetMax(S) == CHOOSE x \in S : \A y \in S : x >= y

\* strings.TrimSpace
TrimSpace(s) ==
    LET keep == {i \in 1..Len(s) : ~IsSpace(s[i])}
    IN  IF keep = {} THEN <<>> ELSE SubSeq(s, SetMin(keep), SetMax(keep))

\* length of the longest prefix of s that stays clear of the positions in stop
RunLen(s, stop) == IF stop = {} THEN Len(s) ELSE SetMin(stop) - 1

\* length of the match of \s* at the start of s
SpaceRunLen(s) == RunLen(s, {i \in 1..Len(s) : ~IsRegexSpace(s[i])})

\* length of the match of [^/]* at the start of s
NotSlashRunLen(s) == RunLen(s, {i \in 1..Len(s) : s[i] = "/"})

\* spaceRegexp.ReplaceAllString(word, repl): every maximal run of \s becomes repl
RECURSIVE ReplaceAllSpace(_, _)
ReplaceAllSpace(s, repl) ==
    IF s = <<>> THEN <<>>
    ELSE IF IsRegexSpace(Head(s))
         THEN repl \o ReplaceAllSpace(Drop(s, SpaceRunLen(s)), repl)
         ELSE <<Head(s)>> \o ReplaceAllSpace(Tail(s), repl)

\* strings.Split(s, "\n")
RECURSIVE Split(_)
Split(s) ==
    LET nl == {i \in 1..Len(s) : s[i] = NL}
    IN  IF nl = {} THEN <<s>>
        ELSE <<SubSeq(s, 1, SetMin(nl) - 1)>> \o Split(Drop(s, SetMin(nl)))

Http  == <<"h", "t", "t", "p", ":", "/", "/">>
Https == <<"h", "t", "t", "p", "s", ":", "/", "/">>
Www   == <<"w", "w", "w", ".">>

\* urlRegexp.FindStringSubmatch(word) for ^https?://(?:www\.)?([^/]+) :
\* <<>> when the pattern does not match, else <<whole match, group 1>>
FindStringSubmatch(word) ==
    LET scheme == IF HasPrefix(word, Https) THEN Https
                  ELSE IF HasPrefix(word, Http) THEN Http
                  ELSE <<>>
        rest   == Drop(word, Len(scheme))
        afterW == Drop(rest, Len(Www))
        \* the optional group is greedy: taken when the rest still matches
        takeW  == HasPrefix(rest, Www) /\ NotSlashRunLen(afterW) >= 1
        from   == IF takeW THEN afterW ELSE rest
        n      == NotSlashRunLen(from)
        group  == SubSeq(from, 1, n)
    IN  IF scheme = <<>> \/ n = 0 THEN <<>>
        ELSE <<scheme \o (IF takeW THEN Www ELSE <<>>) \o group, group>>

\* cleanWord returning the whole match in place of the first group
cleanWordWholeMatch(word) ==
    LET match == FindStringSubmatch(word)
    IN  IF Len(match) > 1 THEN match[1] ELSE word

cleanWord(word) ==
    LET match == FindStringSubmatch(word)
    IN  IF Len(match) > 1 THEN match[2] ELSE word

\* removeWhitespace with the pattern \s in place of \s+
RECURSIVE ReplaceEachSpace(_, _)
ReplaceEachSpace(s, repl) ==
    IF s = <<>> THEN <<>>
    ELSE IF IsRegexSpace(Head(s))
         THEN repl \o ReplaceEachSpace(Tail(s), repl)
         ELSE <<Head(s)>> \o ReplaceEachSpace(Tail(s), repl)

removeWhitespaceEach(word) ==
    ReplaceEachSpace(word, <<>>) \o <<NL>> \o ReplaceEachSpace(word, <<"-">>)

removeWhitespace(word) ==
    LET removedSpaces == ReplaceAllSpace(word, <<>>)
        withHyphens   == ReplaceAllSpace(word, <<"-">>)
    IN  removedSpaces \o <<NL>> \o withHyphens

\* addWordToMap without the test for an existing entry, on a collection that
\* keeps every insertion
addWordToMapUnchecked(ws, word) == ws (+) SetToBag({word})

\* the map after addWordToMap(words, word)
addWordToMap(ws, word) ==
    IF BagIn(word, ws) THEN ws ELSE ws (+) SetToBag({word})

RECURSIVE addAll(_, _)
addAll(ws, wordLines) ==
    IF wordLines = <<>> THEN ws
    ELSE addAll(addWordToMap(ws, Head(wordLines)), Tail(wordLines))

\* the map after processWord(word, words, cfg)
processWord(word, ws, cfg) ==
    LET w1        == IF cfg.cFlag THEN cleanWord(word) ELSE word
        ws1       == addWordToMap(ws, w1)
        wordLines == Split(removeWhitespace(w1))
    IN  addAll(ws1, wordLines)

----------------------------------------------------------------------------
(* Standard input *)

BodyChars == {"a", " ", "/"}

Bodies == UNION {[1..n -> BodyChars] : n \in 0..MaxLen}

Prefixes == {<<>>, Http, Https, Http \o Www}

ExampleLines ==
    { <<"c","o","d","i","n","g","o"," ","d","o","t"," ","c","o","m">>,
      <<"h","t","t","p","s",":","/","/","e","x","a","m","p","l","e",".","c","o","m","/","p","a","t","h">>,
      <<"a"," ","\t","b">>,
      <<" ","h","t","t","p",":"," ","/","/","a","\t">>,
      <<"h","t","t","p",":","/","/","w","w","w",".","a",".","c","o","/","w","w","w",".","b">> }

\* the lines the normaliser is run on
NormLines == {p \o b : p \in Prefixes, b \in Bodies} \cup ExampleLines

\* the lines the dispatcher is run on
DispatchLines ==
    { <<"a","b">>,
      <<"h","t","t","p",":","/","/","a","b","/","x">> }

----------------------------------------------------------------------------
(* Standard output *)

\* verbosePrint(format, a...): the lines it writes
verbosePrint(text) == IF flags.vFlag THEN <<text>> ELSE <<>>

\* fmt.Println(result), for each result in turn
RawLines(results) == [i \in 1..Len(results) |-> <<results[i]>>]

\* fmt.Printf("- %s\n", result), for each result in turn
BulletLines(results) == [i \in 1..Len(results) |-> <<"- ", results[i]>>]

HeaderLine(header) == header \o <<":">>

\* printResults that prints the labelled block whatever flags.sFlag says
printResultsLabelled(header, results) ==
    <<<<>>, HeaderLine(header)>> \o BulletLines(results)

\* printResults that writes the results last to first
printResultsReversed(header, results) ==
    LET n == Len(results)
        reversed == [i \in 1..n |-> results[n + 1 - i]]
    IN  IF flags.sFlag
        THEN RawLines(reversed)
        ELSE <<<<>>, HeaderLine(header)>> \o BulletLines(reversed)

\* the lines printResults(header, results) writes
printResults(header, results) ==
    IF flags.sFlag
    THEN RawLines(results)
    ELSE <<<<>>, HeaderLine(header)>> \o BulletLines(results)

Matching(what, query) == <<what, " matching '">> \o query \o <<"'">>

----------------------------------------------------------------------------
(* The remote APIs *)

\* the field each search function reads from the entries of a response:
\* *org.Login, *repo.FullName, *user.Login, group.FullPath, user.Username,
\* project.PathWithNamespace
OrgLogins    == <<"org1", "org2", "org3", "org4">>
RepoNames    == <<"own/repo1", "own/repo2", "own/repo3", "own/repo4">>
UserLogins   == <<"user1", "user2", "user3", "user4">>
GroupPaths   == <<"group1", "group2", "group3", "group4">>
GitLabUsers  == <<"gluser1", "gluser2", "gluser3", "gluser4">>
ProjectPaths == <<"ns/project1", "ns/project2", "ns/project3", "ns/project4">>

ApiError == "<api error>"

\* what a request can come back with: an error, or up to MaxResults entries
Responses(field) ==
    {[err |-> TRUE, names |-> <<>>]}
    \cup {[err |-> FALSE, names |-> SubSeq(field, 1, k)] : k \in 0..MaxResults}

Request(api, search, perPage) == [api |-> api, search |-> search, perPage |-> perPage]

NoGithubToken == "GITHUB_ACCESS_TOKEN environment variable is not set"
NoGitLabToken == "GITLAB_ACCESS_TOKEN environment variable is not set"

\* createGithubClient without the test for an empty token
createGithubClientUnchecked == ""

\* createGithubClient: the error it returns, "" for none
createGithubClient == IF env.ghToken THEN "" ELSE NoGithubToken

\* createGithubClient: rate.NewLimiter(rate.Every(10), 10), a full bucket of
\* Burst tokens; a token comes back every 10 ns of wall-clock time, and no
\* time passes between the steps of the model
Burst == 10

NewLimiter == Burst

\* RoundTrip: limiter.Wait takes a token of the bucket, after blocking until
\* there is one when the bucket is empty
RoundTrip(bucket) == IF bucket > 0 THEN bucket - 1 ELSE 0

GitHubSearches ==
    {"searchGitHubOrganizations", "searchGitHubRepositories", "searchGitHubUsers"}

\* the limiters a call of the search function fn makes: every GitHub search
\* calls createGithubClient, which makes the limiter of its client; the
\* request of the call, if one is sent, goes through it
githubLimiters(fn, req) ==
    IF fn \in GitHubSearches /\ createGithubClient = ""
    THEN <<IF req = <<>> THEN NewLimiter ELSE RoundTrip(NewLimiter)>>
    ELSE <<>>

\* createGitLabClient: the error it returns, "" for none
createGitLabClient == IF env.glToken THEN "" ELSE NoGitLabToken

\* A search function yields the lines it writes, the requests it sends and the
\* responses it gets.
Outcome(out, req, rsp) == [out |-> out, req |-> req, rsp |-> rsp]

searchGitHubOrganizations(query, maxResults, resp) ==
    IF createGithubClient # ""
    THEN Outcome(<<<<"Error creating GitHub client: ", createGithubClient>>>>, <<>>, <<>>)
    ELSE LET req == Request("github.Search.Users", <<"type:org ">> \o query, maxResults)
         IN  IF resp.err
             THEN Outcome(<<<<"Error searching organizations: ", ApiError>>>>,
                          <<req>>, <<resp>>)
             ELSE Outcome(printResults(Matching("GitHub organizations", query), resp.names),
                          <<req>>, <<resp>>)

searchGitHubRepositories(query, maxResults, resp) ==
    IF createGithubClient # ""
    THEN Outcome(<<<<"Error creating GitHub client: ", createGithubClient>>>>, <<>>, <<>>)
    ELSE LET req == Request("github.Search.Repositories", query, maxResults)
         IN  IF resp.err
             THEN Outcome(<<<<"Error searching repositories: ", ApiError>>>>,
                          <<req>>, <<resp>>)
             ELSE Outcome(printResults(Matching("GitHub repositories", query), resp.names),
                          <<req>>, <<resp>>)

searchGitHubUsers(query, maxResults, resp) ==
    IF createGithubClient # ""
    THEN Outcome(<<<<"Error creating GitHub client: ", createGithubClient>>>>, <<>>, <<>>)
    ELSE LET req == Request("github.Search.Users", <<"type:user ">> \o query, maxResults)
         IN  IF resp.err
             THEN Outcome(<<<<"Error searching users: ", ApiError>>>>, <<req>>, <<resp>>)
             ELSE Outcome(printResults(Matching("GitHub users", query), resp.names),
                          <<req>>, <<resp>>)

\* searchGitLabGroupsAndUsers that prints the users whatever flags.uFlag says
searchGitLabGroupsAndUsersUnfiltered(query, maxResults, groups, users) ==
    IF createGitLabClient # ""
    THEN Outcome(<<<<"Error creating GitLab client: ", createGitLabClient>>>>, <<>>, <<>>)
    ELSE LET reqG == Request("gitlab.Groups.ListGroups", query, maxResults)
             reqU == Request("gitlab.Users.ListUsers", query, maxResults)
             outG == IF flags.oFlag
                     THEN printResults(Matching("GitLab groups", query), groups.names)
                     ELSE <<>>
             outU == printResults(Matching("GitLab users", query), users.names)
         IN  IF groups.err
             THEN Outcome(<<<<"Error searching GitLab groups: ", ApiError>>>>,
                          <<reqG>>, <<groups>>)
             ELSE IF users.err
             THEN Outcome(outG \o <<<<"Error searching GitLab users: ", ApiError>>>>,
                          <<reqG, reqU>>, <<groups, users>>)
             ELSE Outcome(outG \o outU, <<reqG, reqU>>, <<groups, users>>)

searchGitLabGroupsAndUsers(query, maxResults, groups, users) ==
    IF createGitLabClient # ""
    THEN Outcome(<<<<"Error creating GitLab client: ", createGitLabClient>>>>, <<>>, <<>>)
    ELSE LET reqG == Request("gitlab.Groups.ListGroups", query, maxResults)
             reqU == Request("gitlab.Users.ListUsers", query, maxResults)
             outG == IF flags.oFlag
                     THEN printResults(Matching("GitLab groups", query), groups.names)
                     ELSE <<>>
             outU == IF flags.uFlag
                     THEN printResults(Matching("GitLab users", query), users.names)
                     ELSE <<>>
         IN  IF groups.err
             THEN Outcome(<<<<"Error searching GitLab groups: ", ApiError>>>>,
                          <<reqG>>, <<groups>>)
             ELSE IF users.err
             THEN Outcome(outG \o <<<<"Error searching GitLab users: ", ApiError>>>>,
                          <<reqG, reqU>>, <<groups, users>>)
             ELSE Outcome(outG \o outU, <<reqG, reqU>>, <<groups, users>>)

searchGitLabProjects(query, maxResults, resp) ==
    IF createGitLabClient # ""
    THEN Outcome(<<<<"Error creating GitLab client: ", createGitLabClient>>>>, <<>>, <<>>)
    ELSE LET req == Request("gitlab.Projects.ListProjects", query, maxResults)
         IN  IF resp.err
             THEN Outcome(<<<<"Error searching GitLab projects: ", ApiError>>>>,
                          <<req>>, <<resp>>)
             ELSE Outcome(printResults(Matching("GitLab projects", query), resp.names),
                          <<req>>, <<resp>>)

----------------------------------------------------------------------------
(* The program *)

MaxFlagValues == {1, 10}

Configs ==
    [oFlag : BOOLEAN, rFlag : BOOLEAN, uFlag : BOOLEAN, maxFlag : MaxFlagValues,
     cFlag : BOOLEAN, ghFlag : BOOLEAN, glFlag : BOOLEAN, sFlag : BOOLEAN,
     vFlag : BOOLEAN]

Environments == [ghToken : BOOLEAN, glToken : BOOLEAN]

Start ==
    /\ pc = "validate"
    /\ line = NoLine
    /\ words = EmptyBag
    /\ visited = EmptyBag
    /\ cur = NoWord
    /\ calls = EmptyBag
    /\ sent = <<>>
    /\ received = <<>>
    /\ stdout = <<>>
    /\ exitCode = NotExited
    /\ limiters = <<>>

Init ==
    /\ flags \in Configs
    /\ env \in Environments
    /\ stdin \in 0..MaxLines
    /\ Start

Entered(fn, word) == calls (+) SetToBag({<<fn, word>>})

\* validateFlags printing its message without leaving the process
ValidateFlagsNoExit ==
    /\ pc = "validate"
    /\ IF ~(flags.oFlag \/ flags.rFlag \/ flags.uFlag)
       THEN stdout' = <<<<"At least one search flag (-o, -r, or -u) must be specified">>>>
       ELSE stdout' = verbosePrint(<<"Flags validated.">>)
                      \o verbosePrint(<<"Reading and cleaning words...">>)
    /\ pc' = "read"
    /\ sent' = <<>> /\ received' = <<>>
    /\ UNCHANGED <<flags, env, stdin, line, words, visited, cur, calls, exitCode, limiters>>

\* main: flag.Parse, validateFlags
ValidateFlags ==
    /\ pc = "validate"
    /\ IF ~(flags.oFlag \/ flags.rFlag \/ flags.uFlag)
       THEN /\ stdout' = <<<<"At least one search flag (-o, -r, or -u) must be specified">>>>
            /\ exitCode' = 1
            /\ pc' = "exit"
       ELSE /\ stdout' = verbosePrint(<<"Flags validated.">>)
                         \o verbosePrint(<<"Reading and cleaning words...">>)
            /\ pc' = "read"
            /\ UNCHANGED exitCode
    /\ sent' = <<>> /\ received' = <<>>
    /\ UNCHANGED <<flags, env, stdin, line, words, visited, cur, calls, limiters>>

\* readAndCleanWords: scanner.Scan returns true, one turn of the loop
ReadLine(input) ==
    /\ pc = "read"
    /\ stdin > 0
    /\ \E text \in input :
        /\ line' = text
        /\ words' = processWord(TrimSpace(text), words, flags)
    /\ stdin' = stdin - 1
    /\ stdout' = <<>>
    /\ sent' = <<>> /\ received' = <<>>
    /\ UNCHANGED <<flags, env, pc, visited, cur, calls, exitCode, limiters>>

\* readAndCleanWords: scanner.Scan returns false, checkScannerError
EndOfInput ==
    /\ pc = "read"
    /\ \E err \in BOOLEAN :
        /\ err \/ stdin = 0
        /\ IF err
           THEN /\ stdout' = <<<<"Error reading stdin: ", "<read error>">>>>
                /\ exitCode' = 1
                /\ pc' = "exit"
           ELSE /\ stdout' = verbosePrint(<<"Words cleaned.">>)
                             \o verbosePrint(<<"Searching platforms...">>)
                /\ pc' = "range"
                /\ UNCHANGED exitCode
    /\ line' = NoLine
    /\ sent' = <<>> /\ received' = <<>>
    /\ UNCHANGED <<flags, env, stdin, words, visited, cur, calls, limiters>>

\* searchPlatforms: the range loop yields its next entry, or ends
RangeWords ==
    /\ pc = "range"
    /\ IF visited = words
       THEN /\ stdout' = verbosePrint(<<"Platform search completed.">>)
            /\ pc' = "done"
            /\ exitCode' = 0
            /\ cur' = NoWord
            /\ UNCHANGED visited
       ELSE /\ \E word \in BagToSet(words) :
                /\ CopiesIn(word, visited) < CopiesIn(word, words)
                /\ cur' = word
                /\ visited' = visited (+) SetToBag({word})
            /\ stdout' = <<>>
            /\ pc' = "github"
            /\ UNCHANGED exitCode
    /\ sent' = <<>> /\ received' = <<>>
    /\ UNCHANGED <<flags, env, stdin, line, words, calls, limiters>>

\* the GitHub branch of searchPlatforms without its guard
SearchPlatformsGitHubUnguarded ==
    /\ pc = "github"
    /\ stdout' = verbosePrint(<<"Searching GitHub for word: ">> \o cur)
    /\ pc' = "gh_org" /\ calls' = Entered("searchGitHub", cur)
    /\ sent' = <<>> /\ received' = <<>>
    /\ UNCHANGED <<flags, env, stdin, line, words, visited, cur, exitCode, limiters>>

\* searchPlatforms: if !cfg.glFlag { searchGitHub(word, cfg) }
SearchPlatformsGitHub ==
    /\ pc = "github"
    /\ stdout' = verbosePrint(<<"Searching GitHub for word: ">> \o cur)
    /\ IF ~flags.glFlag
       THEN pc' = "gh_org" /\ calls' = Entered("searchGitHub", cur)
       ELSE pc' = "gitlab" /\ UNCHANGED calls
    /\ sent' = <<>> /\ received' = <<>>
    /\ UNCHANGED <<flags, env, stdin, line, words, visited, cur, exitCode, limiters>>

\* one statement of searchGitHub or searchGitLab: if enabled, run search at
\* position at and go on to position next
Statement(at, enabled, fn, outcomes, next) ==
    /\ pc = at
    /\ IF enabled
       THEN /\ \E o \in outcomes :
                /\ stdout' = o.out /\ sent' = o.req /\ received' = o.rsp
                /\ limiters' = limiters \o githubLimiters(fn, o.req)
            /\ calls' = Entered(fn, cur)
       ELSE /\ stdout' = <<>>
            /\ sent' = <<>> /\ received' = <<>>
            /\ UNCHANGED <<calls, limiters>>
    /\ pc' = next
    /\ UNCHANGED <<flags, env, stdin, line, words, visited, cur, exitCode>>

\* searchGitHub: if cfg.oFlag { searchGitHubOrganizations(query, cfg.maxFlag) }
GitHubOrganizations ==
    Statement("gh_org", flags.oFlag, "searchGitHubOrganizations",
              {searchGitHubOrganizations(cur, flags.maxFlag, r) : r \in Responses(OrgLogins)},
              "gh_repo")

\* searchGitHub: if cfg.rFlag { searchGitHubRepositories(query, cfg.maxFlag) }
GitHubRepositories ==
    Statement("gh_repo", flags.rFlag, "searchGitHubRepositories",
              {searchGitHubRepositories(cur, flags.maxFlag, r) : r \in Responses(RepoNames)},
              "gh_user")

\* searchGitHub: if cfg.uFlag { searchGitHubUsers(query, cfg.maxFlag) }
GitHubUsers ==
    Statement("gh_user", flags.uFlag, "searchGitHubUsers",
              {searchGitHubUsers(cur, flags.maxFlag, r) : r \in Responses(UserLogins)},
              "gitlab")

\* the GitLab branch of searchPlatforms guarded by the flag of its own name
SearchPlatformsGitLabOwnFlag ==
    /\ pc = "gitlab"
    /\ stdout' = verbosePrint(<<"Searching GitLab for word: ">> \o cur)
    /\ IF ~flags.glFlag
       THEN pc' = "gl_groups_users" /\ calls' = Entered("searchGitLab", cur)
       ELSE pc' = "range" /\ UNCHANGED calls
    /\ sent' = <<>> /\ received' = <<>>
    /\ UNCHANGED <<flags, env, stdin, line, words, visited, cur, exitCode, limiters>>

\* searchPlatforms: if !cfg.ghFlag { searchGitLab(word, cfg) }
SearchPlatformsGitLab ==
    /\ pc = "gitlab"
    /\ stdout' = verbosePrint(<<"Searching GitLab for word: ">> \o cur)
    /\ IF ~flags.ghFlag
       THEN pc' = "gl_groups_users" /\ calls' = Entered("searchGitLab", cur)
       ELSE pc' = "range" /\ UNCHANGED calls
    /\ sent' = <<>> /\ received' = <<>>
    /\ UNCHANGED <<flags, env, stdin, line, words, visited, cur, exitCode, limiters>>

\* searchGitLab: if cfg.oFlag || cfg.uFlag { searchGitLabGroupsAndUsers(...) }
GitLabGroupsAndUsers ==
    Statement("gl_groups_users", flags.oFlag \/ flags.uFlag, "searchGitLabGroupsAndUsers",
              {searchGitLabGroupsAndUsers(cur, flags.maxFlag, g, u) :
                  g \in Responses(GroupPaths), u \in Responses(GitLabUsers)},
              "gl_projects")

\* searchGitLab: if cfg.rFlag { searchGitLabProjects(query, cfg.maxFlag) }
GitLabProjects ==
    Statement("gl_projects", flags.rFlag, "searchGitLabProjects",
              {searchGitLabProjects(cur, flags.maxFlag, r) : r \in Responses(ProjectPaths)},
              "range")

Next ==
    \/ ValidateFlags
    \/ ReadLine(DispatchLines)
    \/ EndOfInput
    \/ RangeWords
    \/ SearchPlatformsGitHub
    \/ GitHubOrganizations
    \/ GitHubRepositories
    \/ GitHubUsers
    \/ SearchPlatformsGitLab
    \/ GitLabGroupsAndUsers
    \/ GitLabProjects

Spec == Init /\ [][Next]_vars

(* The normaliser alone: every generated line, with and without URL cleaning. *)

NormConfigs ==
    {c \in Configs : ~c.rFlag /\ ~c.uFlag /\ ~c.ghFlag /\ ~c.glFlag /\ ~c.sFlag
                     /\ ~c.vFlag /\ c.maxFlag = 10}

InitNormalize ==
    /\ flags \in NormConfigs
    /\ env = [ghToken |-> TRUE, glToken |-> TRUE]
    /\ stdin \in 0..MaxNormLines
    /\ Start

NextNormalize ==
    \/ ValidateFlags
    \/ ReadLine(NormLines)
    \/ EndOfInput

SpecNormalize == InitNormalize /\ [][NextNormalize]_vars

----------------------------------------------------------------------------
(* Vocabulary of the properties *)

Keys(bag) == BagToSet(bag)

Whitespace == {" ", "\t", "\n", "\r", "\f"}

IsWhitespace(c) == c \in Whitespace
IsNoWhitespace(c) == c \notin Whitespace

\* s with every whitespace character removed
NoSpace(s) == SelectSeq(s, IsNoWhitespace)

\* s from position i on, a whitespace character becoming a hyphen when it
\* starts a stretch of whitespace and nothing otherwise
RECURSIVE HyphenatedFrom(_, _)
HyphenatedFrom(s, i) ==
    IF i > Len(s) THEN <<>>
    ELSE (IF IsNoWhitespace(s[i]) THEN <<s[i]>>
          ELSE IF i > 1 /\ IsWhitespace(s[i - 1]) THEN <<>>
          ELSE <<"-">>)
         \o HyphenatedFrom(s, i + 1)

\* s with every stretch of whitespace replaced by one hyphen
Hyphenated(s) == HyphenatedFrom(s, 1)

Variants(w) == {w, NoSpace(w), Hyphenated(w)}

\* the ways to read t as scheme, optional www., host, and a rest that is empty
\* or starts with a slash: <<first, last>> position of the host
UrlCuts(t) ==
    LET starts == {i \in 1..Len(t) :
                      SubSeq(t, 1, i - 1) \in {Http, Https, Http \o Www, Https \o Www}}
    IN  {c \in UNION {{<<i, j>> : j \in i..Len(t)} : i \in starts} :
            /\ \A k \in c[1]..c[2] : t[k] # "/"
            /\ c[2] = Len(t) \/ t[c[2] + 1] = "/"}

IsUrl(t) == UrlCuts(t) # {}

\* the host of a URL, without www. when something follows it
HostPortion(t) ==
    LET cuts  == UrlCuts(t)
        first == SetMax({c[1] : c \in cuts})
        c     == CHOOSE c \in cuts : c[1] = first
    IN  SubSeq(t, c[1], c[2])

\* what cleaning is to make of the trimmed line t under the flags
Cleaned(t) == IF flags.cFlag /\ IsUrl(t) THEN HostPortion(t) ELSE t

\* a step of the read loop: one more line has gone through processWord
ReadStep == pc = "read" /\ pc' = "read" /\ stdin' = stdin - 1

CodingoDotCom == <<"c","o","d","i","n","g","o"," ","d","o","t"," ","c","o","m">>
CodingoDotComJoined == <<"c","o","d","i","n","g","o","d","o","t","c","o","m">>
CodingoDotComHyphens == <<"c","o","d","i","n","g","o","-","d","o","t","-","c","o","m">>
ExampleUrl ==
    <<"h","t","t","p","s",":","/","/","e","x","a","m","p","l","e",".","c","o","m",
      "/","p","a","t","h">>
ExampleCom == <<"e","x","a","m","p","l","e",".","c","o","m">>
Ab == <<"a", "b">>

Count(fn, word) == CopiesIn(<<fn, word>>, calls)

----------------------------------------------------------------------------
(* C1: every distinct normalised string is in the map exactly once, however
   many lines or variants produce it, and searchPlatforms hands each word of
   the map exactly once to each platform that is not switched off. *)
C1_DispatchedOnce ==
    /\ \A w \in Keys(words) : CopiesIn(w, words) = 1
    /\ \A c \in Keys(calls) : BagIn(c[2], words)
    /\ \A w \in Keys(words) :
        /\ Count("searchGitHub", w) <= 1
        /\ Count("searchGitLab", w) <= 1
        /\ pc = "done" =>
            /\ Count("searchGitHub", w) = (IF flags.glFlag THEN 0 ELSE 1)
            /\ Count("searchGitLab", w) = (IF flags.ghFlag THEN 0 ELSE 1)

\* the line "ab", whose three variants are the same string, has been read and
\* its one word searched on both platforms
C1_Witness ==
    /\ pc = "done"
    /\ Keys(words) = {Ab}
    /\ Count("searchGitHub", Ab) = 1
    /\ Count("searchGitLab", Ab) = 1

(* C2: with or without URL cleaning, processWord adds to the map the word w
   (the trimmed and, if enabled, cleaned line), w without whitespace and w with
   its whitespace replaced by hyphens, and nothing else; "codingo dot com"
   yields itself, "codingodotcom" and "codingo-dot-com". *)
C2_ThreeVariants ==
    [][ReadStep =>
        \A w \in {IF flags.cFlag THEN cleanWord(TrimSpace(line')) ELSE TrimSpace(line')} :
            /\ Keys(words') = Keys(words) \cup Variants(w)
            /\ line' = CodingoDotCom =>
                 Keys(words') = Keys(words) \cup
                     {CodingoDotCom, CodingoDotComJoined, CodingoDotComHyphens}]_vars

C2_Witness ==
    /\ pc = "read"
    /\ line = CodingoDotCom
    /\ Keys(words) = {CodingoDotCom, CodingoDotComJoined, CodingoDotComHyphens}

(* C3: with URL cleaning a word that is an http:// or https:// URL, with or
   without www., is replaced by its host, the characters up to the first
   slash; any other word, and every word when cleaning is off, is kept as it
   is; "https://example.com/path" becomes "example.com". *)
C3_CleanWord ==
    [][ReadStep =>
        \A w \in {Cleaned(TrimSpace(line'))} :
            /\ BagIn(w, words')
            /\ Keys(words') \ Keys(words) \subseteq Variants(w)
            /\ flags.cFlag /\ line' = ExampleUrl =>
                 /\ BagIn(ExampleCom, words')
                 /\ Keys(words') \ Keys(words) \subseteq {ExampleCom}]_vars

C3_Witness ==
    /\ pc = "read"
    /\ flags.cFlag
    /\ line = ExampleUrl
    /\ Keys(words) = {ExampleCom}

\* the map after every word of the set S has gone through the normaliser again
RECURSIVE NormalizeAll(_, _)
NormalizeAll(S, acc) ==
    IF S = {} THEN acc
    ELSE LET w == CHOOSE x \in S : TRUE
         IN  NormalizeAll(S \ {w}, processWord(TrimSpace(w), acc, flags))

(* C4: normalisation is idempotent: the words of the map, normalised again
   under the same flags, give the same map. *)
C4_Idempotent ==
    pc = "read" /\ line # NoLine =>
        Keys(NormalizeAll(Keys(words), EmptyBag)) = Keys(words)

\* the same, with URL cleaning off
C4_IdempotentNoClean == ~flags.cFlag => C4_Idempotent

----------------------------------------------------------------------------
(* Vocabulary of the dispatch properties *)

GitHubFunctions ==
    {"searchGitHub", "searchGitHubOrganizations", "searchGitHubRepositories",
     "searchGitHubUsers"}
GitLabFunctions ==
    {"searchGitLab", "searchGitLabGroupsAndUsers", "searchGitLabProjects"}

GitHubApis == {"github.Search.Users", "github.Search.Repositories"}
GitLabApis ==
    {"gitlab.Groups.ListGroups", "gitlab.Users.ListUsers", "gitlab.Projects.ListProjects"}

Range(f) == {f[i] : i \in DOMAIN f}

SentApis == {r.api : r \in Range(sent)}

\* the requests, by what they ask for
OrgQuery(word)     == Request("github.Search.Users", <<"type:org ">> \o word, flags.maxFlag)
RepoQuery(word)    == Request("github.Search.Repositories", word, flags.maxFlag)
UserQuery(word)    == Request("github.Search.Users", <<"type:user ">> \o word, flags.maxFlag)
GroupQuery(word)   == Request("gitlab.Groups.ListGroups", word, flags.maxFlag)
GlUserQuery(word)  == Request("gitlab.Users.ListUsers", word, flags.maxFlag)
ProjectQuery(word) == Request("gitlab.Projects.ListProjects", word, flags.maxFlag)

\* the kinds of line on standard output
OrgOrGroupNames == Range(OrgLogins) \cup Range(GroupPaths)
OtherNames ==
    Range(RepoNames) \cup Range(UserLogins) \cup Range(GitLabUsers) \cup Range(ProjectPaths)
MatchedNames == OrgOrGroupNames \cup OtherNames

ErrorPrefixes ==
    {"At least one search flag (-o, -r, or -u) must be specified",
     "Error reading stdin: ", "Error creating GitHub client: ",
     "Error creating GitLab client: ", "Error searching organizations: ",
     "Error searching repositories: ", "Error searching users: ",
     "Error searching GitLab groups: ", "Error searching GitLab users: ",
     "Error searching GitLab projects: "}
VerbosePrefixes ==
    {"Flags validated.", "Reading and cleaning words...", "Words cleaned.",
     "Searching platforms...", "Platform search completed.",
     "Searching GitHub for word: ", "Searching GitLab for word: "}

IsBlankLine(l)   == l = <<>>
IsHeaderLine(l)  == l # <<>> /\ l[Len(l)] = ":"
IsBulletLine(l)  == l # <<>> /\ l[1] = "- "
IsRawName(l)     == Len(l) = 1 /\ l[1] \in MatchedNames
IsErrorLine(l)   == l # <<>> /\ l[1] \in ErrorPrefixes
IsVerboseLine(l) == l # <<>> /\ l[1] \in VerbosePrefixes

\* the line names an entry of a category other than organizations and groups
MentionsOther(l) ==
    \/ \E i \in DOMAIN l : l[i] \in OtherNames
    \/ l # <<>> /\ l[1] \in {"GitHub repositories", "GitHub users", "GitLab users",
                             "GitLab projects"}

OnlyOrg == flags.oFlag /\ ~flags.rFlag /\ ~flags.uFlag

\* the labelled block and the bare list, written out
LabelledBlock(label, query, names) ==
    <<<<>>, <<label, " matching '">> \o query \o <<"'", ":">>>>
    \o [i \in 1..Len(names) |-> <<"- ", names[i]>>]

BareList(names) == [i \in 1..Len(names) |-> <<names[i]>>]

Block(label, query, names) ==
    IF flags.sFlag THEN BareList(names) ELSE LabelledBlock(label, query, names)

\* the latest step was a search that got one answer, without error
Answered == Len(received) = 1 /\ ~received[1].err

----------------------------------------------------------------------------
(* C5 as stated: with only the organization flag, GitHub gets only the
   organizations search and GitLab only the groups-and-users call, printing
   groups only; no repository or project query and no user query is issued. *)
C5_NoUserQuery ==
    OnlyOrg =>
        /\ \A c \in Keys(calls) :
             c[1] \in {"searchGitHub", "searchGitLab", "searchGitHubOrganizations",
                       "searchGitLabGroupsAndUsers"}
        /\ \A r \in Range(sent) : r \in {OrgQuery(cur), GroupQuery(cur)}
        /\ \A l \in Range(stdout) : ~MentionsOther(l)

(* C5 as amended: with only the organization flag, the dispatcher enters, once
   per word, only the GitHub organizations search and the GitLab
   groups-and-users call, and only organizations and groups are printed; no
   repository, project or GitHub user query is issued, but the groups-and-users
   call still sends its user-list request after a group-list request that
   succeeded. *)
C5_OnlyOrganizations ==
    OnlyOrg =>
        /\ \A c \in Keys(calls) :
             /\ c[1] \in {"searchGitHub", "searchGitLab", "searchGitHubOrganizations",
                          "searchGitLabGroupsAndUsers"}
             /\ CopiesIn(c, calls) = 1
        /\ sent \in {<<>>, <<OrgQuery(cur)>>, <<GroupQuery(cur)>>,
                     <<GroupQuery(cur), GlUserQuery(cur)>>}
        /\ pc = "gl_projects" /\ received # <<>> /\ ~received[1].err =>
             sent = <<GroupQuery(cur), GlUserQuery(cur)>>
        /\ \A l \in Range(stdout) : ~MentionsOther(l)
        /\ pc = "done" =>
             \A w \in Keys(words) :
                /\ Count("searchGitHubOrganizations", w) = (IF flags.glFlag THEN 0 ELSE 1)
                /\ Count("searchGitLabGroupsAndUsers", w) = (IF flags.ghFlag THEN 0 ELSE 1)

\* only -o: the groups-and-users call has listed groups and users and printed
\* the two groups
C5_Witness ==
    /\ OnlyOrg
    /\ ~flags.sFlag
    /\ pc = "gl_projects"
    /\ sent = <<GroupQuery(cur), GlUserQuery(cur)>>
    /\ Len(received) = 2 /\ Len(received[2].names) = 2
    /\ stdout = LabelledBlock("GitLab groups", cur, SubSeq(GroupPaths, 1, 2))

(* C6: with the GitHub-only flag no GitLab query is issued for any word, with
   the GitLab-only flag no GitHub query, and with neither flag both platforms
   are searched for every word. *)
C6_PlatformRestriction ==
    /\ flags.ghFlag =>
         /\ \A c \in Keys(calls) : c[1] \notin GitLabFunctions
         /\ SentApis \cap GitLabApis = {}
    /\ flags.glFlag =>
         /\ \A c \in Keys(calls) : c[1] \notin GitHubFunctions
         /\ SentApis \cap GitHubApis = {}
    /\ ~flags.ghFlag /\ ~flags.glFlag /\ pc = "done" =>
         \A w \in Keys(words) :
            Count("searchGitHub", w) = 1 /\ Count("searchGitLab", w) = 1

\* GitHub only: two words, both searched on GitHub, the run is over
C6_Witness ==
    /\ flags.ghFlag /\ ~flags.glFlag
    /\ pc = "done"
    /\ Cardinality(Keys(words)) = 2
    /\ \A w \in Keys(words) : Count("searchGitHub", w) = 1

GitHubTokenError == <<<<"Error creating GitHub client: ", NoGithubToken>>>>
GitLabTokenError == <<<<"Error creating GitLab client: ", NoGitLabToken>>>>

\* the search function just left, "" after a step that ran none
JustRan ==
    CASE pc = "gh_repo" /\ flags.oFlag -> "searchGitHubOrganizations"
      [] pc = "gh_user" /\ flags.rFlag -> "searchGitHubRepositories"
      [] pc = "gitlab" /\ flags.uFlag /\ ~flags.glFlag -> "searchGitHubUsers"
      [] pc = "gl_projects" /\ (flags.oFlag \/ flags.uFlag) -> "searchGitLabGroupsAndUsers"
      [] pc = "range" /\ flags.rFlag /\ ~flags.ghFlag /\ cur # NoWord -> "searchGitLabProjects"
      [] OTHER -> ""

\* the first request of each search function
FirstQuery(fn, word) ==
    CASE fn = "searchGitHubOrganizations" -> OrgQuery(word)
      [] fn = "searchGitHubRepositories" -> RepoQuery(word)
      [] fn = "searchGitHubUsers" -> UserQuery(word)
      [] fn = "searchGitLabGroupsAndUsers" -> GroupQuery(word)
      [] fn = "searchGitLabProjects" -> ProjectQuery(word)

\* the search functions the flags enable on each platform
EnabledFunctions ==
    (IF flags.glFlag THEN {} ELSE
        {"searchGitHub"}
        \cup (IF flags.oFlag THEN {"searchGitHubOrganizations"} ELSE {})
        \cup (IF flags.rFlag THEN {"searchGitHubRepositories"} ELSE {})
        \cup (IF flags.uFlag THEN {"searchGitHubUsers"} ELSE {}))
    \cup
    (IF flags.ghFlag THEN {} ELSE
        {"searchGitLab"}
        \cup (IF flags.oFlag \/ flags.uFlag THEN {"searchGitLabGroupsAndUsers"} ELSE {})
        \cup (IF flags.rFlag THEN {"searchGitLabProjects"} ELSE {}))

HasToken(fn) == IF fn \in GitHubFunctions THEN env.ghToken ELSE env.glToken

(* C7: when the credential of a platform is missing, each search attempt on it
   prints the client-creation error and sends no request, while every search
   enabled on the other platform is still attempted for every word, sending
   its request, and the run goes on to its end. *)
C7_MissingCredential ==
    /\ ~env.ghToken => SentApis \cap GitHubApis = {}
    /\ ~env.glToken => SentApis \cap GitLabApis = {}
    /\ JustRan # "" =>
         IF HasToken(JustRan)
         THEN sent # <<>> /\ sent[1] = FirstQuery(JustRan, cur)
         ELSE /\ sent = <<>>
              /\ stdout = (IF JustRan \in GitHubFunctions THEN GitHubTokenError
                           ELSE GitLabTokenError)
    /\ pc = "done" =>
         /\ exitCode = 0
         /\ \A w \in Keys(words) : \A fn \in EnabledFunctions : Count(fn, w) = 1
    /\ exitCode = 1 => calls = EmptyBag

\* no GitHub token: the organizations search of both words has failed on the
\* client, GitLab has been asked for the groups of both, and the run is over
C7_Witness ==
    /\ ~env.ghToken /\ env.glToken
    /\ ~flags.ghFlag /\ ~flags.glFlag /\ flags.oFlag
    /\ pc = "done"
    /\ Cardinality(Keys(words)) = 2
    /\ \A w \in Keys(words) :
         Count("searchGitHubOrganizations", w) = 1
         /\ Count("searchGitLabGroupsAndUsers", w) = 1

(* C8: a failed remote call affects that call alone: the other searches the
   flags enable for the word, the GitLab user search after a failed GitLab
   group search among them, and the searches of the remaining words are still
   issued, no call is retried, and the run does not abort. *)
C8_FailureIsolated ==
    /\ pc = "gl_projects" /\ flags.uFlag /\ env.glToken /\ received # <<>> =>
         GlUserQuery(cur) \in Range(sent)
    /\ \A i, j \in DOMAIN sent : i # j => sent[i] # sent[j]
    /\ pc = "done" =>
         /\ exitCode = 0
         /\ \A w \in Keys(words) : \A fn \in EnabledFunctions : Count(fn, w) = 1
    /\ exitCode = 1 => calls = EmptyBag

(* C9 as stated: in simple-output mode every line written to standard output
   is a raw matched name, also when a credential is missing or a call fails
   (stated of the lines the search functions write). *)
C9_OnlyRawNames ==
    flags.sFlag /\ JustRan # "" => \A l \in Range(stdout) : IsRawName(l)

(* C9 as amended: in simple-output mode no header line, no blank line and no
   bullet is written; every line printResults writes is a raw matched name,
   one per line, and the only other lines on standard output are the error
   messages and, in verbose mode, the progress messages. *)
C9_SimpleOutput ==
    flags.sFlag =>
        /\ \A l \in Range(stdout) :
             /\ ~IsBlankLine(l) /\ ~IsHeaderLine(l) /\ ~IsBulletLine(l)
             /\ IsRawName(l) \/ IsErrorLine(l) \/ (flags.vFlag /\ IsVerboseLine(l))
        /\ Answered => stdout = BareList(received[1].names)

\* simple mode: the organizations search has printed its two names, bare
C9_Witness ==
    /\ flags.sFlag
    /\ pc = "gh_repo"
    /\ Answered
    /\ stdout = <<<<"org1">>, <<"org2">>>>

(* C10: in default mode printResults writes one blank line, the header followed
   by a colon, then "- name" for each result in the order of the list; an
   empty list still prints the header, and in simple mode prints nothing. *)
C10_PrintResults ==
    /\ Answered =>
         /\ JustRan = "searchGitHubOrganizations" =>
              stdout = Block("GitHub organizations", cur, received[1].names)
         /\ JustRan = "searchGitHubRepositories" =>
              stdout = Block("GitHub repositories", cur, received[1].names)
         /\ JustRan = "searchGitHubUsers" =>
              stdout = Block("GitHub users", cur, received[1].names)
         /\ JustRan = "searchGitLabProjects" =>
              stdout = Block("GitLab projects", cur, received[1].names)
         /\ received[1].names = <<>> =>
              Len(stdout) = (IF flags.sFlag THEN 0 ELSE 2)
    /\ Len(received) = 2 /\ ~received[1].err /\ ~received[2].err =>
         stdout = (IF flags.oFlag
                   THEN Block("GitLab groups", cur, received[1].names) ELSE <<>>)
                  \o (IF flags.uFlag
                      THEN Block("GitLab users", cur, received[2].names) ELSE <<>>)

\* default mode: the repositories search has printed the block of its two names
C10_Witness ==
    /\ ~flags.sFlag
    /\ JustRan = "searchGitHubRepositories"
    /\ Answered
    /\ stdout = <<<<>>,
                  <<"GitHub repositories", " matching '", "a", "b", "'", ":">>,
                  <<"- ", "own/repo1">>, <<"- ", "own/repo2">>>>

(* C11: without any of -o, -r, -u the process exits with status 1 before a
   line of standard input is read and before a search is made; with one of
   them the only other way to status 1 is a read error of standard input, no
   search step ends the process whatever its requests return, and the run
   ends with status 0. *)
C11_ExitCodes ==
    /\ ~(flags.oFlag \/ flags.rFlag \/ flags.uFlag) =>
         /\ pc \in {"validate", "exit"}
         /\ pc = "exit" => exitCode = 1
         /\ line = NoLine /\ words = EmptyBag
         /\ calls = EmptyBag /\ sent = <<>>
    /\ (flags.oFlag \/ flags.rFlag \/ flags.uFlag) =>
         /\ exitCode = 1 <=> pc = "exit"
         /\ pc = "exit" => stdout = <<<<"Error reading stdin: ", "<read error>">>>>
         /\ exitCode = 0 <=> pc = "done"
         /\ (\E i \in DOMAIN received : received[i].err) => exitCode = NotExited
         /\ (\E l \in Range(stdout) : IsErrorLine(l)) /\ pc # "exit" =>
              exitCode = NotExited

\* no category flag: the process has left with status 1, the two lines of
\* standard input unread
C11_WitnessNoCategory ==
    /\ ~(flags.oFlag \/ flags.rFlag \/ flags.uFlag)
    /\ pc = "exit" /\ exitCode = 1
    /\ stdin = MaxLines /\ words = EmptyBag /\ calls = EmptyBag

\* with -o and no GitHub token every GitHub search of the two words failed,
\* and the run ended with status 0
C11_Witness ==
    /\ flags.oFlag /\ ~flags.glFlag /\ ~env.ghToken
    /\ BagCardinality(words) = 2
    /\ Count("searchGitHubOrganizations", Ab) = 1
    /\ pc = "done" /\ exitCode = 0

\* the tokens the requests sent so far have taken from the buckets
RECURSIVE TokensTaken(_)
TokensTaken(buckets) ==
    IF buckets = <<>> THEN 0
    ELSE (Burst - buckets[1]) + TokensTaken(Tail(buckets))

(* C12: all GitHub requests of a run go through one token bucket, made once,
   so the run never holds more than one limiter and its requests never take
   more tokens than the burst of 10 (nothing is refilled while no time
   passes). *)
C12_SingleBucket ==
    /\ Len(limiters) <= 1
    /\ TokensTaken(limiters) <= Burst
    /\ \A i \in DOMAIN limiters : limiters[i] = Burst - TokensTaken(limiters)

\* what the program does instead: one limiter for each GitHub search function
\* entered with a token, each with a full bucket for the one request of the
\* call, so that no request ever finds a bucket with fewer than Burst tokens
C12_LimiterPerCall ==
    /\ Len(limiters) =
         (IF env.ghToken
          THEN Cardinality({c \in BagToSet(calls) : c[1] \in GitHubSearches})
          ELSE 0)
    /\ \A i \in DOMAIN limiters : limiters[i] = Burst - 1
    /\ TokensTaken(limiters) = Len(limiters)

IsNameLine(l) == IsRawName(l) \/ IsBulletLine(l)

\* the names a step has printed, in the order of their lines
PrintedNames ==
    LET nameLines == SelectSeq(stdout, IsNameLine)
    IN  [i \in DOMAIN nameLines |-> nameLines[i][Len(nameLines[i])]]

(* C13: of every search request the names printed are the returned names in
   the returned order, and at most -max of them, however many entries the
   API returns. *)
C13_AtMostMax ==
    /\ Answered /\ JustRan # "" =>
         /\ PrintedNames = received[1].names
         /\ Len(PrintedNames) <= flags.maxFlag
    /\ Len(received) = 2 /\ ~received[1].err /\ ~received[2].err =>
         Len(PrintedNames) <= 2 * flags.maxFlag

\* what the program does instead: -max goes into the request as PerPage, and
\* every name of the response is printed in order
C13_AsReturned ==
    /\ \A i \in DOMAIN sent : sent[i].perPage = flags.maxFlag
    /\ Answered /\ JustRan # "" => PrintedNames = received[1].names
    /\ Len(received) = 2 /\ ~received[1].err /\ ~received[2].err =>
         PrintedNames = (IF flags.oFlag THEN received[1].names ELSE <<>>)
                        \o (IF flags.uFlag THEN received[2].names ELSE <<>>)

(* C14: whatever lines are read, blank and all-whitespace lines included, and
   whatever the flags, every word of the map is non-empty after trimming. *)
C14_NonEmptyWords ==
    \A w \in Keys(words) : TrimSpace(w) # <<>>

\* what the program does instead: a line that is empty after trimming puts
\* the empty word into the map, and with -c so do its variants
C14_BlankLineWord ==
    line # NoLine /\ TrimSpace(line) = <<>> => <<>> \in Keys(words)

\* the second half of C14: once the input is read, no step of the dispatch
\* adds, alters or removes a word of the map
C14_WordsFrozen ==
    [][pc \notin {"validate", "read"} => words' = words]_vars

(* C15: with -gh and -gl together each flag switches the other platform off:
   no search function of either platform is entered for any word, no request
   is sent, nothing but verbose progress lines is printed for the words, and
   the run ends with status 0. *)
C15_BothPlatformFlags ==
    flags.ghFlag /\ flags.glFlag =>
        /\ calls = EmptyBag /\ sent = <<>> /\ received = <<>>
        /\ limiters = <<>>
        /\ pc \in {"validate", "read", "exit", "range", "github", "gitlab", "done"}
        /\ pc \in {"range", "github", "gitlab", "done"} =>
             \A l \in Range(stdout) : IsVerboseLine(l)
        /\ ~flags.vFlag /\ pc \in {"range", "github", "gitlab", "done"} =>
             stdout = <<>>
        /\ pc = "done" => exitCode = 0 /\ visited = words
        /\ pc \in {"range", "github", "gitlab"} => exitCode = NotExited

\* both flags with every category: the run over two words has ended with
\* status 0 and no search was made
C15_Witness ==
    /\ flags.ghFlag /\ flags.glFlag
    /\ flags.oFlag /\ flags.rFlag /\ flags.uFlag
    /\ env.ghToken /\ env.glToken
    /\ BagCardinality(words) = 2 /\ visited = words
    /\ pc = "done" /\ exitCode = 0
    /\ calls = EmptyBag

============================================================================
